---- MODULE Spec2Model ----
(***************************************************************************)
(* A model of the CustomRenderer of markdown-it-custom-renderer            *)
(* (src/src/custom-renderer/index.ts): the rule / handler / hook tables,   *)
(* the registration operations, render, renderInline, runHooks,            *)
(* processToken and the source-map resolver getMap.                        *)
(*                                                                         *)
(* Strings are sequences of pieces; a piece records which function         *)
(* produced it and for which token, so that order, loss and duplication    *)
(* of contributions are visible in the output.  s \o t is string           *)
(* concatenation, <<>> the empty string.                                   *)
(***************************************************************************)
EXTENDS Integers, Sequences, FiniteSets, TLC

(* ------------------------------ bounds -------------------------------- *)

\* number of registration calls made on one renderer after its construction
MaxCalls == 1
\* length of the token sequence given to render
MaxTokens == 2
\* length of the children sequence of an inline token
MaxChildren == 2
\* length of the token sequence given to getMap
MaxMapLen == 3
\* rendering calls are made while the functions have written to the
\* Renderer State fewer times than this
MaxCount == 2

(* ------------------------- program constants -------------------------- *)

\* enum CustomRendererLifeCycle (numeric members)
BeforeRender == 0
AfterRender == 1
BeforeInlineRender == 2
AfterInlineRender == 3
\* parseInt(name, 10) of a name that does not start with a digit
NaN == -1
\* a number that is no member of the enum, as hook() may be given
BadCycle == AfterInlineRender + 4

\* the user-supplied functions (rules, handlers and hooks alike)
Fns == {1, 2}
\* Renderer.prototype.renderToken, the default single-token primitive
RenderTokenFn == 0
\* user-supplied functions with an effect besides the string they return:
\* one that throws, one that writes to the Renderer State (this.state), one
\* that registers through the renderer it is bound to while it runs
Thrower == 3
Mutator == 4
Registrar == 5
\* the error a user-supplied function throws
UserError == "UserError"
\* the rule markdown-it's Renderer constructor installs for "text"
BuiltinTextRule == 9

\* token types: the inline container (no built-in rule) and a type with a
\* built-in rule
Types == {"inline", "text"}
\* keys of a rules / handlers mapping, the empty name included
Names == Types \cup {""}

\* a value of a mapping or an argument of handle / hook:
\* undefined, one function, or an array of functions
Null == [kind |-> "null", fns |-> <<>>]
Fn(f) == [kind |-> "fn", fns |-> <<f>>]
List(s) == [kind |-> "list", fns |-> s]

\* Object.keys(CustomRendererLifeCycle): a numeric TypeScript enum carries
\* the reverse mapping, so the keys are the numbers and the member names
EnumKeys ==
  {"0", "1", "2", "3",
   "BeforeRender", "AfterRender", "BeforeInlineRender", "AfterInlineRender"}

isCustomRendererLifeCycle(cycle) == cycle \in EnumKeys

\* parseInt(name, 10) on the keys the model feeds to setHooks
parseInt(name) ==
  CASE name = "0" -> 0
    [] name = "1" -> 1
    [] name = "2" -> 2
    [] name = "3" -> 3
    [] OTHER -> NaN

(* ------------------------------ tables --------------------------------- *)

\* a table is a function whose DOMAIN is the set of keys present
EmptyTable == [k \in {} |-> <<>>]
Has(m, k) == k \in DOMAIN m
Put(m, k, v) == [x \in (DOMAIN m) \cup {k} |-> IF x = k THEN v ELSE m[x]]
\* map.get(k) ?? []
GetOrEmpty(m, k) == IF Has(m, k) THEN m[k] ELSE <<>>

\* this.rules after super(): markdown-it's default rules
DefaultRules == [t \in {"text"} |-> BuiltinTextRule]

VARIABLES
  rules,      \* this.rules: type -> function
  handlers,   \* this.handlers: type -> list of functions
  hooks,      \* this.hooks: lifecycle number -> list of functions
  state,      \* this.state: the Renderer State value
  inits,      \* how often the state initializer has been invoked
  prev,       \* the three tables as they were before the last call
  last,       \* the last call: its name and arguments
  result,     \* what the last call returned: the string and the call log
  error,      \* "none", or the error the last call raised
  calls,      \* registration calls made so far
  mapTokens,  \* getMap's token sequence
  mapIndex,   \* getMap's index argument (-1: not called yet)
  mapResult   \* getMap's result (<<>> is null)

vars ==
  <<rules, handlers, hooks, state, inits, prev, last, result, error, calls,
    mapTokens, mapIndex, mapResult>>

mapVars == <<mapTokens, mapIndex, mapResult>>

\* the Renderer State: gen tells which invocation of the initializer made
\* the value (0: this.state not yet assigned), count what the registered
\* functions have written to it
Undefined == [gen |-> 0, count |-> 0]
\* initState(), invoked for the n-th time: a fresh value
initState(n) == [gen |-> n, count |-> 0]

\* the renderer's fields: tables with no state assigned yet
Tables(r, h, k) ==
  [rules |-> r, handlers |-> h, hooks |-> k, state |-> Undefined, inits |-> 0]

(* --------------------------- registration ------------------------------ *)

\* an outcome of a registration step: the tables and whether it threw
Ok(t) == [t |-> t, error |-> "none"]
Threw(t) == [t |-> t, error |-> "TypeError"]

\* (Array.isArray(x) ? x : [x]).map((h) => h.bind(this)): undefined.bind
\* raises a TypeError
CanNormalize(v) == v.kind # "null"
Normalize(v) == v.fns

\* a handle that stores the new handlers in place of the registered ones
handleReplacing(t, type, handler) ==
  IF ~CanNormalize(handler) THEN Threw(t)
  ELSE Ok([t EXCEPT !.handlers = Put(t.handlers, type, Normalize(handler))])

\* handle(type, handler)
handle(t, type, handler) ==
  IF ~CanNormalize(handler) THEN Threw(t)
  ELSE Ok([t EXCEPT !.handlers =
             Put(t.handlers, type,
                 GetOrEmpty(t.handlers, type) \o Normalize(handler))])

\* hook(cycle, hook)
hook(t, cycle, h) ==
  IF ~CanNormalize(h) THEN Threw(t)
  ELSE Ok([t EXCEPT !.hooks =
             Put(t.hooks, cycle, GetOrEmpty(t.hooks, cycle) \o Normalize(h))])

\* an entry of Object.entries(mapping)
Entry(name, value) == [name |-> name, value |-> value]

\* a setRules that keeps the rule a type already has (first write wins)
SetRulesEntryKeepFirst(t, e) ==
  IF e.value.kind = "null" \/ e.name = "" \/ Has(t.rules, e.name) THEN Ok(t)
  ELSE Ok([t EXCEPT !.rules = Put(t.rules, e.name, e.value.fns[1])])

\* the body of setRules' loop for one entry
SetRulesEntry(t, e) ==
  IF e.value.kind = "null" \/ e.name = "" THEN Ok(t)
  ELSE Ok([t EXCEPT !.rules = Put(t.rules, e.name, e.value.fns[1])])

\* the body of setHandlers' loop for one entry
SetHandlersEntry(t, e) ==
  IF e.value.kind = "null" \/ e.name = "" THEN Ok(t)
  ELSE handle(t, e.name, e.value)

\* a setHooks without the validation, a key that is no number falling
\* back to the first lifecycle point (parseInt(name, 10) || 0)
SetHooksEntryUnvalidated(t, e) ==
  hook(t, IF parseInt(e.name) = NaN THEN BeforeRender ELSE parseInt(e.name),
       e.value)

\* the body of setHooks' loop for one entry
SetHooksEntry(t, e) ==
  IF isCustomRendererLifeCycle(e.name)
  THEN hook(t, parseInt(e.name), e.value)
  ELSE Ok(t)

\* for (const [name, x] of Object.entries(m)) { ... }: the entries in
\* order, stopping at the first one that throws
RECURSIVE ForEntries(_, _, _, _)
ForEntries(kind, t, entries, k) ==
  IF k > Len(entries) THEN Ok(t)
  ELSE LET r == CASE kind = "rules" -> SetRulesEntry(t, entries[k])
                  [] kind = "handlers" -> SetHandlersEntry(t, entries[k])
                  [] OTHER -> SetHooksEntry(t, entries[k])
       IN IF r.error # "none" THEN r
          ELSE ForEntries(kind, r.t, entries, k + 1)

setRules(t, m) == ForEntries("rules", t, m, 1)
setHandlers(t, m) == ForEntries("handlers", t, m, 1)
setHooks(t, m) == ForEntries("hooks", t, m, 1)

(* ------------------------------ tokens --------------------------------- *)

\* token.children: absent, or an array (possibly empty) of tokens
NoChildren == [present |-> FALSE, toks |-> <<>>]
Children(s) == [present |-> TRUE, toks |-> s]
\* token.map: null is <<>>, a range is <<start, end>>
NoMap == <<>>

Token(type, nesting, map, children) ==
  [type |-> type, nesting |-> nesting, map |-> map, children |-> children]

\* the result of calling function f with (tokens, i, ...): an
\* uninterpreted application, so the string shows who was called on what
Piece(f, tokens, i) == <<[fn |-> f, tokens |-> tokens, i |-> i]>>

(* ----------------------- user-supplied functions ----------------------- *)

\* an outcome of a step of rendering: the string so far, the call log, the
\* error raised ("none": none) and the renderer's fields afterwards
Done(ret, log, t) == [ret |-> ret, log |-> log, error |-> "none", t |-> t]
\* a throw: the local string is lost with the frame that held it
Raise(e, log, t) == [ret |-> <<>>, log |-> log, error |-> e, t |-> t]

\* this.state.count++
Bump(t) == [t EXCEPT !.state.count = @ + 1]

\* what a registered function does, besides returning its string, when it
\* is invoked bound to the renderer t as kind ("handler", "rule",
\* "renderToken" or "hook") for key (the token's type, the hook's cycle).
\* The Registrar notes in the state that it ran and registers function 1
\* as a further handler or hook for the key, function 2 as the key's rule.
Invoke(t, f, kind, key) ==
  CASE f = Thrower -> [t |-> t, error |-> UserError]
    [] f = Mutator -> [t |-> Bump(t), error |-> "none"]
    [] f = Registrar ->
         [t |-> IF kind = "hook" THEN hook(Bump(t), key, Fn(1)).t
                ELSE setRules(handle(Bump(t), key, Fn(1)).t,
                              <<Entry(key, Fn(2))>>).t,
          error |-> "none"]
    [] OTHER -> [t |-> t, error |-> "none"]

(* ---------------------------- processToken ----------------------------- *)

\* a record of one invocation of a rule, a handler or the default
\* primitive, with the Renderer State the function finds
Call(kind, f, tokens, i, seen) ==
  [kind |-> kind, fn |-> f, tokens |-> tokens, i |-> i, seen |-> seen]

\* a record of processToken's entry: the handler list and the rule it
\* has resolved for the token (const handlers = ..., const rule = ...)
Resolved(tokens, i, hs, rule) ==
  [kind |-> "processToken", tokens |-> tokens, i |-> i, fns |-> hs,
   rule |-> rule]

\* a handlers loop that reads the registered list anew at every step, as
\* a loop over a list that handle() extends in place does
RECURSIVE HandlersLoopLive(_, _, _, _, _, _, _)
HandlersLoopLive(t, hs, k, tokens, i, rendered, log) ==
  LET live == GetOrEmpty(t.handlers, tokens[i + 1].type)
  IN IF k > Len(live) THEN Done(rendered, log, t)
     ELSE LET r == Invoke(t, live[k], "handler", tokens[i + 1].type)
              log2 == Append(log, Call("handler", live[k], tokens, i, t.state))
          IN IF r.error # "none" THEN Raise(r.error, log2, r.t)
             ELSE HandlersLoopLive(r.t, hs, k + 1, tokens, i,
                                   rendered \o Piece(live[k], tokens, i), log2)

\* for (const handler of handlers) { rendered += handler(tokens, i, ...) }
\* over the list hs resolved before the loop; HandlerReturned is the loop
\* body after the handler's invocation r, logged in log2
RECURSIVE HandlersLoop(_, _, _, _, _, _, _)
HandlerReturned(r, hs, k, tokens, i, rendered, log2) ==
  IF r.error # "none" THEN Raise(r.error, log2, r.t)
  ELSE HandlersLoop(r.t, hs, k + 1, tokens, i,
                    rendered \o Piece(hs[k], tokens, i), log2)

HandlersLoop(t, hs, k, tokens, i, rendered, log) ==
  IF k > Len(hs) THEN Done(rendered, log, t)
  ELSE HandlerReturned(Invoke(t, hs[k], "handler", tokens[i + 1].type),
                       hs, k, tokens, i, rendered,
                       Append(log, Call("handler", hs[k], tokens, i, t.state)))

\* rendered += rule(...) after the rule's (or the default primitive's)
\* invocation r, logged in log2
RuleReturned(r, rendered, rule, tokens, i, log2) ==
  IF r.error # "none" THEN Raise(r.error, log2, r.t)
  ELSE Done(rendered \o Piece(rule, tokens, i), log2, r.t)

\* the rule, or the default primitive when the type has none, applied
\* after the handlers' outcome h
RuleStep(h, rule, kind, tokens, i) ==
  IF h.error # "none" THEN h
  ELSE RuleReturned(Invoke(h.t, rule, kind, tokens[i + 1].type), h.ret, rule,
                    tokens, i,
                    Append(h.log, Call(kind, rule, tokens, i, h.t.state)))

\* a processToken in which handlers take the place of the rule and of the
\* default primitive (if handlers ... else if rule ... else default)
processTokenExclusive(t, tokens, i, log) ==
  LET type == tokens[i + 1].type
      hasRule == Has(t.rules, type)
      rule == IF hasRule THEN t.rules[type] ELSE RenderTokenFn
      hs == GetOrEmpty(t.handlers, type)
      log1 == Append(log, Resolved(tokens, i, hs, rule))
  IN IF hs # <<>> THEN HandlersLoop(t, hs, 1, tokens, i, <<>>, log1)
     ELSE RuleStep(Done(<<>>, log1, t), rule,
                   IF hasRule THEN "rule" ELSE "renderToken", tokens, i)

\* processToken(tokens, i, options, env): the handler list and the rule
\* are read before any handler runs
processToken(t, tokens, i, log) ==
  LET type == tokens[i + 1].type
      hasRule == Has(t.rules, type)
      rule == IF hasRule THEN t.rules[type] ELSE RenderTokenFn
      hs == GetOrEmpty(t.handlers, type)
  IN RuleStep(HandlersLoop(t, hs, 1, tokens, i, <<>>,
                           Append(log, Resolved(tokens, i, hs, rule))),
              rule, IF hasRule THEN "rule" ELSE "renderToken", tokens, i)

(* ------------------------------ runHooks ------------------------------- *)

\* parameters.rendered: absent in render, an array of strings in renderInline
NoArray == [isArray |-> FALSE, items |-> <<>>]
Array(items) == [isArray |-> TRUE, items |-> items]
\* parameters.map: absent in render, null or a range in renderInline
NoMapParam == [present |-> FALSE, value |-> NoMap]
MapParam(m) == [present |-> TRUE, value |-> m]

Parameters(tokens, rendered, map) ==
  [tokens |-> tokens, rendered |-> rendered, map |-> map]

\* a record of one invocation of a hook, with the parameters it was given
\* and the Renderer State it finds
HookCall(cycle, f, parameters, seen) ==
  [kind |-> "hook", fn |-> f, cycle |-> cycle, parameters |-> parameters,
   seen |-> seen]

\* a record of runHooks' entry: the hook list it has read for the cycle
HooksRun(cycle, hs) == [kind |-> "runHooks", cycle |-> cycle, fns |-> hs]

\* the result of hook f called with parameters
HookPiece(f, parameters) == Piece(f, parameters.tokens, -1)

\* an outcome of runHooks: acc is parameters.rendered afterwards
HooksDone(rendered, acc, log, t) ==
  [rendered |-> rendered, acc |-> acc, log |-> log, error |-> "none", t |-> t]
HooksRaise(e, acc, log, t) ==
  [rendered |-> <<>>, acc |-> acc, log |-> log, error |-> e, t |-> t]

\* a hooks loop that hands every hook the accumulator as it was when the
\* loop began (a copy made per runHooks call)
RECURSIVE HooksLoopSnapshot(_, _, _, _, _, _, _, _)
HooksLoopSnapshot(t, hs, k, cycle, parameters, acc, rendered, log) ==
  IF k > Len(hs) THEN HooksDone(rendered, acc, log, t)
  ELSE LET res == HookPiece(hs[k], parameters)
           log2 == Append(log, HookCall(cycle, hs[k], parameters, t.state))
           r == Invoke(t, hs[k], "hook", cycle)
       IN IF r.error # "none" THEN HooksRaise(r.error, acc, log2, r.t)
          ELSE IF acc.isArray
          THEN HooksLoopSnapshot(r.t, hs, k + 1, cycle, parameters,
                                 Array(Append(acc.items, res)), rendered, log2)
          ELSE HooksLoopSnapshot(r.t, hs, k + 1, cycle, parameters,
                                 acc, rendered \o res, log2)

\* for (const hook of hooks) { ... } over the list hs read before the
\* loop: acc is parameters.rendered, which the loop mutates in place;
\* HookReturned is the loop body after the hook's invocation r with result
\* res, logged in log2
RECURSIVE HooksLoop(_, _, _, _, _, _, _, _)
HookReturned(r, res, hs, k, cycle, parameters, acc, rendered, log2) ==
  IF r.error # "none" THEN HooksRaise(r.error, acc, log2, r.t)
  ELSE IF acc.isArray
  THEN HooksLoop(r.t, hs, k + 1, cycle, parameters,
                 Array(Append(acc.items, res)), rendered, log2)
  ELSE HooksLoop(r.t, hs, k + 1, cycle, parameters, acc, rendered \o res, log2)

HooksLoop(t, hs, k, cycle, parameters, acc, rendered, log) ==
  IF k > Len(hs) THEN HooksDone(rendered, acc, log, t)
  ELSE HookReturned(Invoke(t, hs[k], "hook", cycle),
                    HookPiece(hs[k], [parameters EXCEPT !.rendered = acc]),
                    hs, k, cycle, parameters, acc, rendered,
                    Append(log, HookCall(cycle, hs[k],
                                         [parameters EXCEPT !.rendered = acc],
                                         t.state)))

\* return Array.isArray(parameters.rendered) ? '' : rendered, after the
\* loop's outcome r
HooksReturn(r, parameters) ==
  [ret |-> IF parameters.rendered.isArray THEN <<>> ELSE r.rendered,
   acc |-> r.acc, log |-> r.log, error |-> r.error, t |-> r.t]

\* a runHooks that takes the hooks off the registered list as it runs
\* them (while ((hook = hooks.shift())) ...)
runHooksDraining(t, cycle, parameters, log) ==
  LET hs == GetOrEmpty(t.hooks, cycle)
      r == HooksLoop(t, hs, 1, cycle, parameters, parameters.rendered, <<>>,
                     Append(log, HooksRun(cycle, hs)))
  IN [ret |-> IF parameters.rendered.isArray THEN <<>> ELSE r.rendered,
      acc |-> r.acc, log |-> r.log, error |-> r.error,
      t |-> IF Has(r.t.hooks, cycle)
            THEN [r.t EXCEPT !.hooks = Put(r.t.hooks, cycle, <<>>)]
            ELSE r.t]

\* runHooks(cycle, parameters): ret is the returned string, acc the state
\* of parameters.rendered afterwards
runHooks(t, cycle, parameters, log) ==
  HooksReturn(HooksLoop(t, GetOrEmpty(t.hooks, cycle), 1, cycle, parameters,
                        parameters.rendered, <<>>,
                        Append(log, HooksRun(cycle, GetOrEmpty(t.hooks, cycle)))),
              parameters)

(* ----------------------------- renderInline ---------------------------- *)

\* rendered.join('')
RECURSIVE Join(_)
Join(items) == IF items = <<>> THEN <<>> ELSE Head(items) \o Join(Tail(items))

\* an outcome of the children loop: items is the array rendered
ItemsDone(items, log, t) ==
  [items |-> items, log |-> log, error |-> "none", t |-> t]

\* a record of one invocation of renderInline
InlineCall(tokens, map) == [kind |-> "renderInline", tokens |-> tokens, map |-> map]

\* a children loop that descends: a child that is an inline container
\* gets an inline pass of its own, with its hooks
RECURSIVE InlineLoopDeep(_, _, _, _, _)
InlineLoopDeep(t, tokens, i, items, log) ==
  IF i >= Len(tokens) THEN ItemsDone(items, log, t)
  ELSE LET ch == tokens[i + 1].children.toks
           before == runHooks(t, BeforeInlineRender,
                              Parameters(ch, Array(<<>>), MapParam(NoMap)),
                              Append(log, InlineCall(ch, NoMap)))
           body == InlineLoopDeep(before.t, ch, 0,
                                  Append(before.acc.items, before.ret),
                                  before.log)
           after == runHooks(body.t, AfterInlineRender,
                             Parameters(ch, Array(body.items), MapParam(NoMap)),
                             body.log)
           r == IF tokens[i + 1].type = "inline" /\ tokens[i + 1].children.present
                THEN IF before.error # "none"
                     THEN Raise(before.error, before.log, before.t)
                     ELSE IF body.error # "none"
                     THEN Raise(body.error, body.log, body.t)
                     ELSE IF after.error # "none"
                     THEN Raise(after.error, after.log, after.t)
                     ELSE Done(Join(Append(after.acc.items, after.ret)),
                               after.log, after.t)
                ELSE processToken(t, tokens, i, log)
       IN IF r.error # "none"
          THEN [items |-> items, log |-> r.log, error |-> r.error, t |-> r.t]
          ELSE InlineLoopDeep(r.t, tokens, i + 1, Append(items, r.ret), r.log)

\* a children loop that begins at the second child (let i = 1)
RECURSIVE InlineLoopFromSecond(_, _, _, _, _)
InlineLoopFromSecond(t, tokens, i, items, log) ==
  LET j == IF i = 0 THEN 1 ELSE i
  IN IF j >= Len(tokens) THEN ItemsDone(items, log, t)
     ELSE LET r == processToken(t, tokens, j, log)
          IN IF r.error # "none"
             THEN [items |-> items, log |-> r.log, error |-> r.error,
                   t |-> r.t]
             ELSE InlineLoopFromSecond(r.t, tokens, j + 1,
                                       Append(items, r.ret), r.log)

\* for (let i = 0; i < tokens.length; i++) rendered.push(processToken(...));
\* ChildReturned is the loop body after processToken's outcome r
RECURSIVE InlineLoop(_, _, _, _, _)
ChildReturned(r, tokens, i, items) ==
  IF r.error # "none"
  THEN [items |-> items, log |-> r.log, error |-> r.error, t |-> r.t]
  ELSE InlineLoop(r.t, tokens, i + 1, Append(items, r.ret), r.log)

InlineLoop(t, tokens, i, items, log) ==
  IF i >= Len(tokens) THEN ItemsDone(items, log, t)
  ELSE ChildReturned(processToken(t, tokens, i, log), tokens, i, items)

\* return rendered.join('') after the AfterInlineRender hooks' outcome
InlineReturn(after) ==
  IF after.error # "none" THEN Raise(after.error, after.log, after.t)
  ELSE Done(Join(Append(after.acc.items, after.ret)), after.log, after.t)

\* renderInline's steps after the children loop's outcome
InlineAfter(body, tokens, map) ==
  IF body.error # "none" THEN Raise(body.error, body.log, body.t)
  ELSE InlineReturn(runHooks(body.t, AfterInlineRender,
                             Parameters(tokens, Array(body.items),
                                        MapParam(map)),
                             body.log))

\* renderInline's steps after the BeforeInlineRender hooks' outcome
InlineRest(before, tokens, map) ==
  IF before.error # "none" THEN Raise(before.error, before.log, before.t)
  ELSE InlineAfter(InlineLoop(before.t, tokens, 0,
                              Append(before.acc.items, before.ret),
                              before.log),
                   tokens, map)

\* a renderInline that joins only the strings runHooks returns and the
\* children's results, not what the hooks pushed into the accumulator
renderInlineReturnsOnly(t, tokens, map, log) ==
  LET before == runHooks(t, BeforeInlineRender,
                         Parameters(tokens, Array(<<>>), MapParam(map)),
                         Append(log, InlineCall(tokens, map)))
      body == InlineLoop(before.t, tokens, 0, <<before.ret>>, before.log)
      after == runHooks(body.t, AfterInlineRender,
                        Parameters(tokens, Array(body.items), MapParam(map)),
                        body.log)
  IN IF before.error # "none" THEN Raise(before.error, before.log, before.t)
     ELSE IF body.error # "none" THEN Raise(body.error, body.log, body.t)
     ELSE IF after.error # "none" THEN Raise(after.error, after.log, after.t)
     ELSE Done(Join(Append(body.items, after.ret)), after.log, after.t)

\* renderInline(tokens, options, env, map)
renderInline(t, tokens, map, log) ==
  InlineRest(runHooks(t, BeforeInlineRender,
                      Parameters(tokens, Array(<<>>), MapParam(map)),
                      Append(log, InlineCall(tokens, map))),
             tokens, map)

(* ------------------------------- getMap -------------------------------- *)

\* a getMap loop that tests the depth before it adds the token's nesting
RECURSIVE GetMapLoopTestFirst(_, _, _)
GetMapLoopTestFirst(tokens, i, depth) ==
  IF i < 0 \/ i >= Len(tokens) THEN NoMap
  ELSE LET token == tokens[i + 1]
       IN IF token.map # NoMap /\ depth >= 0 THEN token.map
          ELSE GetMapLoopTestFirst(tokens, i - 1, depth + token.nesting)

\* while (tokens[i]) { token = tokens[i--]; depth += token.nesting; ... }
RECURSIVE GetMapLoop(_, _, _)
GetMapLoop(tokens, i, depth) ==
  IF i < 0 \/ i >= Len(tokens) THEN NoMap
  ELSE LET token == tokens[i + 1]
           d == depth + token.nesting
       IN IF token.map # NoMap /\ d >= 0 THEN token.map
          ELSE GetMapLoop(tokens, i - 1, d)

\* getMap(tokens, i)
getMap(tokens, i) == GetMapLoop(tokens, i, 0)

(* ------------------------------- render -------------------------------- *)

\* an inline test that also asks for a non-empty children array
IsInlineContainerNonEmpty(token) ==
  token.type = "inline" /\ token.children.present /\ token.children.toks # <<>>

\* type === 'inline' && Array.isArray(children)
IsInlineContainer(token) == token.type = "inline" /\ token.children.present

\* a render loop that resolves the range from the token alone
\* (map = tokens[i].map), without the backward scan
RECURSIVE RenderLoopOwnMap(_, _, _, _, _)
RenderLoopOwnMap(t, tokens, i, rendered, log) ==
  IF i >= Len(tokens) THEN Done(rendered, log, t)
  ELSE LET token == tokens[i + 1]
           r == IF IsInlineContainer(token)
                THEN renderInline(t, token.children.toks, token.map, log)
                ELSE processToken(t, tokens, i, log)
       IN IF r.error # "none" THEN Raise(r.error, r.log, r.t)
          ELSE RenderLoopOwnMap(r.t, tokens, i + 1, rendered \o r.ret, r.log)

\* for (i = 0, len = tokens.length; i < len; i++) { ... }; TokenReturned
\* is the loop body after the outcome r of renderInline or processToken
RECURSIVE RenderLoop(_, _, _, _, _)
TokenReturned(r, tokens, i, rendered) ==
  IF r.error # "none" THEN Raise(r.error, r.log, r.t)
  ELSE RenderLoop(r.t, tokens, i + 1, rendered \o r.ret, r.log)

RenderLoop(t, tokens, i, rendered, log) ==
  IF i >= Len(tokens) THEN Done(rendered, log, t)
  ELSE TokenReturned(IF IsInlineContainer(tokens[i + 1])
                     THEN renderInline(t, tokens[i + 1].children.toks,
                                       getMap(tokens, i), log)
                     ELSE processToken(t, tokens, i, log),
                     tokens, i, rendered)

\* return rendered after the AfterRender hooks' outcome
RenderReturn(after, rendered) ==
  IF after.error # "none" THEN Raise(after.error, after.log, after.t)
  ELSE Done(rendered \o after.ret, after.log, after.t)

\* render's steps after the token loop's outcome
RenderAfter(body, parameters) ==
  IF body.error # "none" THEN body
  ELSE RenderReturn(runHooks(body.t, AfterRender, parameters, body.log),
                    body.ret)

\* render's steps after the BeforeRender hooks' outcome
RenderRest(before, tokens, parameters) ==
  IF before.error # "none" THEN Raise(before.error, before.log, before.t)
  ELSE RenderAfter(RenderLoop(before.t, tokens, 0, before.ret, before.log),
                   parameters)

\* a render whose hook parameters carry an accumulator array, as
\* renderInline's do: runHooks then returns the empty string
renderWithAccumulator(t, tokens) ==
  LET parameters == Parameters(tokens, Array(<<>>), NoMapParam)
  IN RenderRest(runHooks(t, BeforeRender, parameters, <<>>), tokens,
                parameters)

\* a render that runs the AfterRender hooks in a finally clause
renderFinally(t, tokens) ==
  LET parameters == Parameters(tokens, NoArray, NoMapParam)
      before == runHooks(t, BeforeRender, parameters, <<>>)
      body == IF before.error # "none"
              THEN Raise(before.error, before.log, before.t)
              ELSE RenderLoop(before.t, tokens, 0, before.ret, before.log)
      after == runHooks(body.t, AfterRender, parameters, body.log)
  IN IF body.error # "none" THEN Raise(body.error, after.log, after.t)
     ELSE IF after.error # "none" THEN Raise(after.error, after.log, after.t)
     ELSE Done(body.ret \o after.ret, after.log, after.t)

\* a render that assigns the Renderer State anew before it begins
renderResettingState(t, tokens) ==
  LET parameters == Parameters(tokens, NoArray, NoMapParam)
      t1 == [t EXCEPT !.state = initState(t.inits + 1), !.inits = @ + 1]
  IN RenderRest(runHooks(t1, BeforeRender, parameters, <<>>), tokens,
                parameters)

\* render(tokens, options, env)
render(t, tokens) ==
  LET parameters == Parameters(tokens, NoArray, NoMapParam)
  IN RenderRest(runHooks(t, BeforeRender, parameters, <<>>), tokens,
                parameters)

(* ------------------------------- inputs -------------------------------- *)

\* arguments of handle / hook: undefined, one function, an array of two
Values == {Null, Fn(1), List(<<2, 1>>)}
\* values of a rules mapping
RuleValues == {Null, Fn(2)}
\* values of a hooks mapping
HookValues == {Null, Fn(1)}
\* keys of a handlers mapping
HandlerNames == {"", "text"}
\* keys of a hooks mapping: enum numbers, an enum member name, the empty
\* name and a name outside the enum
HookNames == {"0", "3", "AfterRender", "", "x"}
\* the cycle argument of hook()
Cycles ==
  {BeforeRender, AfterRender, BeforeInlineRender, AfterInlineRender, BadCycle}

\* an entry with a non-empty name (for hooks: an enum number) and a value
Plain(e) == e.name \in Types \cup {"0", "1", "2", "3"} /\ e.value # Null

\* a mapping is given by its Object.entries: one entry, or a plain entry
\* and one that is not, under different names and in either order
Mappings(names, values) ==
  LET E == {Entry(n, v) : n \in names, v \in values}
      P == {p \in {<<e1, e2>> : e1 \in E, e2 \in E} :
              /\ p[1].name # p[2].name
              /\ Plain(p[1]) # Plain(p[2])}
  IN {<<e>> : e \in E} \cup P

\* the children of an inline token: a text, then an inline token that has
\* children itself, then texts
ChildAt(k) ==
  IF k = 2 THEN Token("inline", 0, NoMap,
                      Children(<<Token("text", 0, NoMap, NoChildren)>>))
  ELSE Token("text", 0, NoMap, NoChildren)
ChildSeq(n) == [k \in 1..n |-> ChildAt(k)]
ChildSeqs == {ChildSeq(n) : n \in 0..MaxChildren}

\* the top-level tokens: a closing token, an inline token without
\* children, one with an empty children array and one with children
TopTokens ==
  {Token("text", -1, NoMap, NoChildren),
   Token("inline", 0, <<0, 1>>, NoChildren),
   Token("inline", 0, NoMap, Children(<<>>)),
   Token("inline", 0, <<2, 3>>, Children(ChildSeq(MaxChildren)))}

SeqsUpTo(S, n) == UNION {[1..k -> S] : k \in 0..n}
TokenSeqs == SeqsUpTo(TopTokens, MaxTokens)

\* getMap's tokens: only nesting and map matter
MapTokens ==
  {Token("text", n, m, NoChildren) : n \in {-1, 0, 1},
                                     m \in {NoMap, <<0, 1>>, <<2, 3>>}}
MapTokenSeqs == SeqsUpTo(MapTokens, MaxMapLen)

\* constructor parameters: all defaults; rules, handlers and hooks for
\* every table; an empty hook value
Params(r, h, k) == [rules |-> r, handlers |-> h, hooks |-> k]
CtorParams ==
  {Params(<<>>, <<>>, <<>>),
   Params(<<Entry("text", Fn(1))>>,
          <<Entry("text", List(<<1, 2>>)), Entry("inline", Fn(2))>>,
          <<Entry("0", Fn(1)), Entry("1", List(<<1, 2>>)),
            Entry("2", List(<<1, 2>>)), Entry("3", Fn(2))>>),
   Params(<<>>, <<>>, <<Entry("1", Fn(1)), Entry("0", Null)>>)}

\* constructor parameters with functions that have effects: none (the
\* full set of functions above); a throwing handler, rule and hook, each
\* between functions that return; functions that write to the state;
\* functions that register while they run
EffectParams ==
  {Params(<<Entry("text", Fn(1))>>,
          <<Entry("text", List(<<1, 2>>)), Entry("inline", Fn(2))>>,
          <<Entry("0", List(<<1, 2>>)), Entry("1", List(<<1, 2>>)),
            Entry("2", List(<<1, 2>>)), Entry("3", List(<<2, 1>>))>>),
   Params(<<>>,
          <<Entry("inline", List(<<1, Thrower, 2>>))>>,
          <<Entry("0", Fn(1)), Entry("1", Fn(2)), Entry("3", Fn(1))>>),
   Params(<<Entry("text", Fn(Thrower))>>,
          <<Entry("text", Fn(1))>>,
          <<Entry("1", Fn(2)), Entry("2", Fn(1)), Entry("3", Fn(2))>>),
   Params(<<>>, <<>>,
          <<Entry("0", Fn(1)), Entry("1", Fn(1)),
            Entry("2", List(<<1, Thrower, 2>>)), Entry("3", Fn(2))>>),
   Params(<<>>, <<Entry("text", Fn(1))>>,
          <<Entry("0", List(<<1, Thrower, 2>>)), Entry("1", Fn(1))>>),
   Params(<<Entry("inline", Fn(Mutator))>>,
          <<Entry("text", List(<<Mutator, 1>>))>>,
          <<Entry("0", Fn(Mutator)), Entry("3", Fn(Mutator))>>),
   Params(<<Entry("inline", Fn(Registrar))>>,
          <<Entry("text", List(<<Registrar, 2>>))>>,
          <<Entry("0", List(<<Registrar, 2>>)),
            Entry("2", List(<<Registrar, 2>>))>>)}

(* ---------------------------- state machine ---------------------------- *)

\* what a call returned: whether it returned a string, the string, and
\* the log of the calls it made
NoResult == [returned |-> FALSE, ret |-> <<>>, log |-> <<>>]

\* a call: its name and arguments (those it does not take are blank)
NoParams == Params(<<>>, <<>>, <<>>)
Blank ==
  [op |-> "", params |-> NoParams, name |-> "", cycle |-> NaN, value |-> Null,
   entries |-> <<>>, tokens |-> <<>>, i |-> 0, map |-> NoMap]

Current ==
  [rules |-> rules, handlers |-> handlers, hooks |-> hooks, state |-> state,
   inits |-> inits]

\* constructor({mode, handlers, hooks, rules, initState})
Construct(p) ==
  LET t0 == Tables(DefaultRules, EmptyTable, EmptyTable)
      r1 == setRules(t0, p.rules)
      \* this.state = initState()
      t1 == [r1.t EXCEPT !.state = initState(r1.t.inits + 1), !.inits = @ + 1]
      r2 == setHandlers(t1, p.handlers)
  IN IF r1.error # "none" THEN r1
     ELSE IF r2.error # "none" THEN r2
     ELSE setHooks(r2.t, p.hooks)

InitRenderer(p) ==
  LET r == Construct(p)
  IN /\ rules = r.t.rules
     /\ handlers = r.t.handlers
     /\ hooks = r.t.hooks
     /\ state = r.t.state
     /\ inits = r.t.inits
     /\ prev = Tables(DefaultRules, EmptyTable, EmptyTable)
     /\ last = [Blank EXCEPT !.op = "constructor", !.params = p]
     /\ result = NoResult
     /\ error = r.error
     /\ calls = 0

InitMap ==
  /\ mapTokens = <<>>
  /\ mapIndex = -1
  /\ mapResult = NoMap

Init == (\E p \in CtorParams : InitRenderer(p)) /\ InitMap

\* a constructor that threw leaves no renderer to call
Constructed == ~(last.op = "constructor" /\ error # "none")

\* Rendering leaves the tables alone: a call made after a rendering call
\* reaches the state it reaches when made instead of it.  So after a
\* rendering call only its repetition is explored; every other call is
\* explored from the state before it.
Repeats(op) == last.op = op
AfterRegistration == last.op \notin {"render", "renderInline", "processToken"}

\* a registration call and its outcome
Register(r, l) ==
  /\ Constructed
  /\ AfterRegistration
  /\ calls < MaxCalls
  /\ calls' = calls + 1
  /\ prev' = Current
  /\ rules' = r.t.rules
  /\ handlers' = r.t.handlers
  /\ hooks' = r.t.hooks
  /\ state' = r.t.state
  /\ inits' = r.t.inits
  /\ error' = r.error
  /\ last' = l
  /\ result' = NoResult
  /\ UNCHANGED mapVars

SetRules ==
  \E m \in Mappings(Names, RuleValues) :
    Register(setRules(Current, m),
             [Blank EXCEPT !.op = "setRules", !.entries = m])

SetHandlers ==
  \E m \in Mappings(HandlerNames, Values) :
    Register(setHandlers(Current, m),
             [Blank EXCEPT !.op = "setHandlers", !.entries = m])

Handle ==
  \E type \in Names, v \in Values :
    Register(handle(Current, type, v),
             [Blank EXCEPT !.op = "handle", !.name = type, !.value = v])

SetHooks ==
  \E m \in Mappings(HookNames, HookValues) :
    Register(setHooks(Current, m),
             [Blank EXCEPT !.op = "setHooks", !.entries = m])

Hook ==
  \E cycle \in Cycles, v \in Values :
    Register(hook(Current, cycle, v),
             [Blank EXCEPT !.op = "hook", !.cycle = cycle, !.value = v])

\* a rendering call and its outcome: the string is returned unless a
\* function threw; the renderer's fields are as the functions left them
Rendering(r, l) ==
  /\ Constructed
  /\ state.count < MaxCount
  /\ prev' = Current
  /\ rules' = r.t.rules
  /\ handlers' = r.t.handlers
  /\ hooks' = r.t.hooks
  /\ state' = r.t.state
  /\ inits' = r.t.inits
  /\ error' = r.error
  /\ last' = l
  /\ result' = [returned |-> r.error = "none", ret |-> r.ret, log |-> r.log]
  /\ UNCHANGED calls
  /\ UNCHANGED mapVars

Render ==
  \E tokens \in TokenSeqs :
    /\ AfterRegistration \/ (Repeats("render") /\ tokens = last.tokens)
    /\ Rendering(render(Current, tokens),
                 [Blank EXCEPT !.op = "render", !.tokens = tokens])

RenderInline ==
  \E tokens \in ChildSeqs, map \in {NoMap, <<0, 1>>} :
    /\ \/ AfterRegistration
       \/ Repeats("renderInline") /\ tokens = last.tokens /\ map = last.map
    /\ Rendering(renderInline(Current, tokens, map, <<>>),
                 [Blank EXCEPT !.op = "renderInline", !.tokens = tokens,
                               !.map = map])

\* processToken on a top-level token or on a token of a children sequence
ProcessToken ==
  \E tokens \in SeqsUpTo(TopTokens, 1) \cup ChildSeqs :
    \E i \in 0..(Len(tokens) - 1) :
      /\ \/ AfterRegistration
         \/ Repeats("processToken") /\ tokens = last.tokens /\ i = last.i
      /\ Rendering(processToken(Current, tokens, i, <<>>),
                   [Blank EXCEPT !.op = "processToken", !.tokens = tokens,
                                 !.i = i])

Next ==
  \/ SetRules
  \/ SetHandlers
  \/ Handle
  \/ SetHooks
  \/ Hook
  \/ Render
  \/ RenderInline
  \/ ProcessToken

Spec == Init /\ [][Next]_vars

\* rendering with functions that throw, write to the Renderer State or
\* register while they run
InitEffects == (\E p \in EffectParams : InitRenderer(p)) /\ InitMap

NextEffects ==
  \/ Render
  \/ RenderInline

SpecEffects == InitEffects /\ [][NextEffects]_vars

\* the source-map resolver on its own: every token sequence, every index
InitGetMap ==
  /\ InitRenderer(Params(<<>>, <<>>, <<>>))
  /\ mapTokens \in MapTokenSeqs
  /\ mapIndex = -1
  /\ mapResult = NoMap

GetMap ==
  \E i \in 0..Len(mapTokens) :
    /\ mapIndex' = i
    /\ mapResult' = getMap(mapTokens, i)
    /\ UNCHANGED <<mapTokens, rules, handlers, hooks, state, inits, prev,
                   last, result, error, calls>>

NextGetMap == GetMap

SpecGetMap == InitGetMap /\ [][NextGetMap]_vars

(* ------------------------- claims: rendering --------------------------- *)

\* the concatenation of a sequence of strings
RECURSIVE ConcatAll(_)
ConcatAll(ss) ==
  IF ss = <<>> THEN <<>>
  ELSE ConcatAll(SubSeq(ss, 1, Len(ss) - 1)) \o ss[Len(ss)]

\* the results of the hooks registered for a cycle in table t, in
\* registration order
HookResults(t, cycle, tokens) ==
  LET hs == GetOrEmpty(t.hooks, cycle)
  IN ConcatAll([k \in 1..Len(hs) |-> Piece(hs[k], tokens, -1)])

\* the contribution of the top-level token at index i
Contribution(t, tokens, i) ==
  LET token == tokens[i + 1]
  IN IF token.type = "inline" /\ token.children.present
     THEN renderInline(t, token.children.toks, getMap(tokens, i), <<>>).ret
     ELSE processToken(t, tokens, i, <<>>).ret

ExpectedRender(t, tokens) ==
  HookResults(t, BeforeRender, tokens)
    \o ConcatAll([k \in 1..Len(tokens) |-> Contribution(t, tokens, k - 1)])
    \o HookResults(t, AfterRender, tokens)

\* C1: the string render returns is the BeforeRender hooks' results in
\* registration order, then one contribution per top-level token in index
\* order (renderInline's result for an inline container, processToken's for
\* any other token), then the AfterRender hooks' results in registration
\* order, and nothing else.
C1_RenderOutput ==
  last.op = "render" => result.ret = ExpectedRender(Current, last.tokens)

\* C1 witness: a render of two tokens, an inline container and another
\* token, with two BeforeRender and two AfterRender hooks registered
C1_Witness ==
  /\ last.op = "render"
  /\ Len(GetOrEmpty(hooks, BeforeRender)) >= 2
  /\ Len(GetOrEmpty(hooks, AfterRender)) >= 2
  /\ Len(last.tokens) = 2
  /\ IsInlineContainer(last.tokens[1])
  /\ ~IsInlineContainer(last.tokens[2])
  /\ Len(result.ret) >= 6

\* the results of the handlers registered for a type, in registration order
HandlerResults(t, tokens, i) ==
  LET hs == GetOrEmpty(t.handlers, tokens[i + 1].type)
  IN ConcatAll([k \in 1..Len(hs) |-> Piece(hs[k], tokens, i)])

\* the one contribution that follows the handlers: the rule's result, or
\* the default primitive's when no rule is registered
RuleOrDefault(t, tokens, i) ==
  LET type == tokens[i + 1].type
  IN IF type \in DOMAIN t.rules THEN Piece(t.rules[type], tokens, i)
     ELSE Piece(RenderTokenFn, tokens, i)

\* the calls of a log that are of the given kinds
OfKinds(log, kinds) == SelectSeq(log, LAMBDA c : c.kind \in kinds)

\* C2: processToken returns the results of all handlers registered for the
\* token's type, in registration order, followed by exactly one more
\* contribution: the rule's result if a rule is registered for the type,
\* the default primitive's otherwise.  Every handler is called, and exactly
\* one of rule and default is.
C2_ProcessToken ==
  last.op = "processToken" =>
    LET type == last.tokens[last.i + 1].type
    IN /\ result.ret = HandlerResults(Current, last.tokens, last.i)
                         \o RuleOrDefault(Current, last.tokens, last.i)
       /\ Len(OfKinds(result.log, {"handler"})) = Len(GetOrEmpty(handlers, type))
       /\ Len(OfKinds(result.log, {"rule", "renderToken"})) = 1
       /\ result.log[Len(result.log)].kind =
            IF type \in DOMAIN rules THEN "rule" ELSE "renderToken"

\* C2 witness: a token whose type has two handlers and a rule
C2_Witness ==
  /\ last.op = "processToken"
  /\ Len(GetOrEmpty(handlers, last.tokens[last.i + 1].type)) >= 2
  /\ last.tokens[last.i + 1].type \in DOMAIN rules
  /\ Len(result.ret) >= 3

\* the dispatch of the top-level tokens as the log shows it: the entries
\* of renderInline, and the rule-or-default calls made on the top-level
\* sequence itself (a children sequence never equals a non-empty top-level
\* sequence of the model)
Dispatches(log, tokens) ==
  SelectSeq(log, LAMBDA c :
    \/ c.kind = "renderInline"
    \/ c.kind \in {"rule", "renderToken"} /\ c.tokens = tokens)

\* the hooks of the inline lifecycle that the log shows invoked
InlineHookCalls(log) ==
  SelectSeq(log, LAMBDA c :
    c.kind = "hook" /\ c.cycle \in {BeforeInlineRender, AfterInlineRender})

\* the test that sends a token to the inline pass: type "inline" and a
\* children array, which must be non-empty when nonEmpty is asked for
Delegated(token, nonEmpty) ==
  /\ token.type = "inline"
  /\ token.children.present
  /\ nonEmpty => token.children.toks # <<>>

\* render dispatches every top-level token once, in order: to renderInline
\* over its children when it is Delegated, to processToken otherwise; the
\* inline hooks run once per delegated token and for no other token
DispatchBy(nonEmpty) ==
  last.op = "render" =>
    LET d == Dispatches(result.log, last.tokens)
        n == Len(SelectSeq(last.tokens, LAMBDA tok : Delegated(tok, nonEmpty)))
    IN /\ Len(d) = Len(last.tokens)
       /\ \A k \in 1..Len(last.tokens) :
            IF Delegated(last.tokens[k], nonEmpty)
            THEN d[k].kind = "renderInline"
                 /\ d[k].tokens = last.tokens[k].children.toks
            ELSE d[k].kind \in {"rule", "renderToken"} /\ d[k].i = k - 1
       /\ Len(InlineHookCalls(result.log)) =
            n * (Len(GetOrEmpty(hooks, BeforeInlineRender))
                 + Len(GetOrEmpty(hooks, AfterInlineRender)))

\* C3 as stated: a top-level token is delegated to the inline pass iff its
\* type is "inline" and its children sequence is non-empty; every other
\* token, an inline token with an empty children sequence included, goes
\* through processToken and no inline hook runs for it.
C3_Original == DispatchBy(TRUE)

\* C3 amended: a top-level token is delegated to the inline pass iff its
\* type is "inline" and it carries a children array, empty or not; an
\* inline token with an empty children array is delegated too (its inline
\* hooks run, processToken is not called for it); only a token of another
\* type or an inline token without a children array goes through
\* processToken, with no inline hook run for it.
C3_Dispatch == DispatchBy(FALSE)

\* C3 witness: a render, with inline hooks registered, of an inline token
\* with an empty children array, one without children and one with children
C3_Witness ==
  /\ last.op = "render"
  /\ Len(GetOrEmpty(hooks, BeforeInlineRender)) >= 1
  /\ Len(GetOrEmpty(hooks, AfterInlineRender)) >= 1
  /\ Len(last.tokens) = 2
  /\ last.tokens[1].type = "inline"
  /\ last.tokens[1].children = Children(<<>>)
  /\ last.tokens[2].type = "inline"
  /\ last.tokens[2].children = NoChildren
  /\ Len(InlineHookCalls(result.log)) >= 2

\* the results of the children of an inline pass, in child order
ChildResults(t, tokens) ==
  ConcatAll([k \in 1..Len(tokens) |-> processToken(t, tokens, k - 1, <<>>).ret])

\* C4: renderInline returns the BeforeInlineRender hooks' results in
\* registration order, then each child's processToken result in child
\* order, then the AfterInlineRender hooks' results in registration order:
\* every hook result once, although it travels through the accumulator.
C4_RenderInlineOutput ==
  last.op = "renderInline" =>
    result.ret = HookResults(Current, BeforeInlineRender, last.tokens)
                   \o ChildResults(Current, last.tokens)
                   \o HookResults(Current, AfterInlineRender, last.tokens)

\* C4 witness: an inline pass over two children with two
\* BeforeInlineRender hooks and an AfterInlineRender hook
C4_Witness ==
  /\ last.op = "renderInline"
  /\ Len(GetOrEmpty(hooks, BeforeInlineRender)) >= 2
  /\ Len(GetOrEmpty(hooks, AfterInlineRender)) >= 1
  /\ Len(last.tokens) = 2
  /\ Len(result.ret) >= 5

(* ------------------------ claims: registration ------------------------- *)

RegistrationOps ==
  {"constructor", "setRules", "setHandlers", "handle", "setHooks", "hook"}

IsPrefix(a, b) == Len(a) <= Len(b) /\ SubSeq(b, 1, Len(a)) = a

\* the entries of the last call that are of a bulk registration of kind
\* "rules", "handlers" or "hooks" (the constructor makes all three)
EntriesOf(kind) ==
  CASE last.op = "constructor" -> last.params[kind]
    [] last.op = "setRules" /\ kind = "rules" -> last.entries
    [] last.op = "setHandlers" /\ kind = "handlers" -> last.entries
    [] last.op = "setHooks" /\ kind = "hooks" -> last.entries
    [] OTHER -> <<>>

\* the functions the last call registers as handlers for type key, in
\* call order, a list argument giving its elements in list order
HandlersGiven(key) ==
  IF last.op = "handle"
  THEN IF last.name = key THEN last.value.fns ELSE <<>>
  ELSE LET es == EntriesOf("handlers")
       IN ConcatAll([k \in 1..Len(es) |->
            IF es[k].name = key /\ key # "" THEN es[k].value.fns ELSE <<>>])

\* the functions the last call registers as hooks under the number key
HooksGiven(key) ==
  IF last.op = "hook"
  THEN IF last.cycle = key THEN last.value.fns ELSE <<>>
  ELSE LET es == EntriesOf("hooks")
       IN ConcatAll([k \in 1..Len(es) |->
            IF es[k].name \in EnumKeys /\ parseInt(es[k].name) = key
            THEN es[k].value.fns ELSE <<>>])

\* C5: handler and hook registration is additive.  Every call leaves each
\* list registered before it as a prefix of the list after it (nothing is
\* removed, replaced or reordered), and a registration call that returns
\* leaves, for every key, the list before it followed by the functions the
\* call registers for that key, in call order and list order.
C5_Additive ==
  /\ \A key \in DOMAIN handlers \cup DOMAIN prev.handlers \cup Names :
       /\ IsPrefix(GetOrEmpty(prev.handlers, key), GetOrEmpty(handlers, key))
       /\ error = "none" =>
            GetOrEmpty(handlers, key) =
              GetOrEmpty(prev.handlers, key) \o HandlersGiven(key)
  /\ \A key \in DOMAIN hooks \cup DOMAIN prev.hooks \cup Cycles :
       /\ IsPrefix(GetOrEmpty(prev.hooks, key), GetOrEmpty(hooks, key))
       /\ error = "none" =>
            GetOrEmpty(hooks, key) =
              GetOrEmpty(prev.hooks, key) \o HooksGiven(key)

\* C5 witness: handle with an array of two handlers for a type that has
\* handlers already, on a renderer that has hooks
C5_Witness ==
  /\ last.op = "handle"
  /\ last.value = List(<<2, 1>>)
  /\ Len(GetOrEmpty(prev.handlers, last.name)) >= 2
  /\ GetOrEmpty(handlers, last.name)
       = GetOrEmpty(prev.handlers, last.name) \o <<2, 1>>
  /\ DOMAIN hooks # {}

\* C6: rule registration is last-write-wins per type.  After every call a
\* type has the rule of the last entry of the call that names the type
\* with a non-empty rule; when the call has no such entry (an empty rule
\* value, the type not named, or a call that registers no rules) the type
\* has the rule it had before, or none if it had none.
C6_LastWriteWins ==
  \A type \in DOMAIN rules \cup DOMAIN prev.rules \cup Names :
    LET es == EntriesOf("rules")
        W == {k \in 1..Len(es) :
                es[k].name = type /\ type # "" /\ es[k].value # Null}
    IN IF W # {}
       THEN /\ type \in DOMAIN rules
            /\ rules[type] = es[CHOOSE k \in W : \A j \in W : j <= k].value.fns[1]
       ELSE /\ type \in DOMAIN rules <=> type \in DOMAIN prev.rules
            /\ type \in DOMAIN rules => rules[type] = prev.rules[type]

\* C6 witness: a setRules that replaces the rule a type had and carries an
\* empty rule value for the other entry
C6_Witness ==
  /\ last.op = "setRules"
  /\ Len(last.entries) = 2
  /\ \E k \in 1..2 : last.entries[k].value = Null
  /\ "text" \in DOMAIN prev.rules
  /\ prev.rules["text"] = 1
  /\ rules["text"] = 2

\* the lifecycle point a key of a hooks mapping denotes: the enum number,
\* or the enum member of that name
Denotes(name) ==
  CASE name \in {"0", "BeforeRender"} -> BeforeRender
    [] name \in {"1", "AfterRender"} -> AfterRender
    [] name \in {"2", "BeforeInlineRender"} -> BeforeInlineRender
    [] name \in {"3", "AfterInlineRender"} -> AfterInlineRender
    [] OTHER -> NaN

\* C7 as stated: for every entry of a hooks mapping whose key the
\* lifecycle validation accepts, the hook is appended to the list of the
\* lifecycle point the key denotes (so that later renders invoke it there).
C7_Original ==
  (last.op \in {"setHooks", "constructor"} /\ error = "none") =>
    \A k \in 1..Len(EntriesOf("hooks")) :
      LET e == EntriesOf("hooks")[k]
      IN (isCustomRendererLifeCycle(e.name) /\ e.value # Null) =>
           GetOrEmpty(hooks, Denotes(e.name)) =
             GetOrEmpty(prev.hooks, Denotes(e.name)) \o e.value.fns

\* an entry a bulk registration is to skip: an empty name or an empty value
Skipped(e) == e.name = "" \/ e.value = Null

\* the last bulk call made on the tables before it, without the entries
\* it is to skip
WithoutSkipped ==
  LET keep(es) == SelectSeq(es, LAMBDA e : ~Skipped(e))
  IN CASE last.op = "constructor" ->
            Construct(Params(keep(last.params.rules),
                             keep(last.params.handlers),
                             keep(last.params.hooks)))
       [] last.op = "setRules" -> setRules(prev, keep(last.entries))
       [] last.op = "setHandlers" -> setHandlers(prev, keep(last.entries))
       [] OTHER -> setHooks(prev, keep(last.entries))

\* C8 as stated: in setRules, setHandlers, setHooks and the constructor an
\* entry with an empty name or an empty value raises no error, leaves the
\* tables as they were for that entry and does not prevent the other
\* entries of the call from being registered.
C8_Original ==
  last.op \in {"constructor", "setRules", "setHandlers", "setHooks"} =>
    /\ error = "none"
    /\ Current = WithoutSkipped.t

\* what a rendering call's caller and the registered functions see of it:
\* the string, the calls made and the error
Seen(r) == [ret |-> r.ret, log |-> r.log, error |-> r.error]

\* the outcomes of every render and renderInline call on tables t
Renderings(t) ==
  [top |-> [tokens \in TokenSeqs |-> Seen(render(t, tokens))],
   inline |-> [tokens \in ChildSeqs |->
                 Seen(renderInline(t, tokens, NoMap, <<>>))]]

\* two renderers render alike: the same tables do, tables that differ
\* are compared rendering by rendering
SameRenderings(a, b) == a = b \/ Renderings(a) = Renderings(b)

\* a key of a hooks mapping that is neither the number nor the name of a
\* lifecycle point
Unrecognized(name) == Denotes(name) = NaN

\* C9: registering a hook under a key that is no lifecycle point is a
\* no-op for rendering.  hook() with a number outside the enum raises no
\* error and every render and renderInline returns (and invokes) what it
\* did before; setHooks raises the error and leaves the renderings that
\* the same call without its unrecognized entries does.
C9_UnrecognizedKey ==
  /\ (last.op = "hook" /\ last.cycle \notin 0..3 /\ last.value # Null) =>
       /\ error = "none"
       /\ SameRenderings(Current, prev)
  /\ last.op = "setHooks" =>
       LET r == setHooks(prev, SelectSeq(last.entries,
                                         LAMBDA e : ~Unrecognized(e.name)))
       IN /\ error = r.error
          /\ SameRenderings(Current, r.t)

\* C9 witness: a setHooks with a hook under a name outside the enum and
\* one under a lifecycle number, on a renderer that has hooks
C9_Witness ==
  /\ last.op = "setHooks"
  /\ Len(last.entries) = 2
  /\ last.entries[1] = Entry("x", Fn(1))
  /\ last.entries[2] = Entry("3", Fn(1))
  /\ DOMAIN prev.hooks # {}
  /\ error = "none"

(* ------------------------- claims: getMap ------------------------------ *)

\* the sum of the nesting values of the tokens at indices j..i
RECURSIVE NestingSum(_, _, _)
NestingSum(tokens, j, i) ==
  IF j > i THEN 0 ELSE tokens[j + 1].nesting + NestingSum(tokens, j + 1, i)

\* the indices the backward scan from i may stop at: the token carries a
\* range and the depth counter, which has added the nesting of every token
\* from i down to it, is >= 0
Stops(tokens, i) ==
  {j \in 0..i : tokens[j + 1].map # NoMap /\ NestingSum(tokens, j, i) >= 0}

\* the example of the specification: A(+1, (0,1)), B(0), C(-1)
Example ==
  <<Token("text", 1, <<0, 1>>, NoChildren),
    Token("text", 0, NoMap, NoChildren),
    Token("text", -1, NoMap, NoChildren)>>

\* C10: getMap(tokens, i) returns the range of the first token, scanning
\* backward from i to 0, that carries a range while the depth counter (0 at
\* the start, each visited token's nesting added before the test) is >= 0,
\* and none when no visited token does; on the example it returns (0,1) at
\* C's index, and none when no token at or before i carries a range.
C10_GetMap ==
  (mapIndex >= 0 /\ mapIndex < Len(mapTokens)) =>
    LET S == Stops(mapTokens, mapIndex)
    IN /\ IF S = {} THEN mapResult = NoMap
          ELSE mapResult = mapTokens[(CHOOSE j \in S : \A k \in S : k <= j) + 1].map
       /\ (mapTokens = Example /\ mapIndex = 2) => mapResult = <<0, 1>>
       /\ (\A j \in 0..mapIndex : mapTokens[j + 1].map = NoMap) =>
            mapResult = NoMap

\* C10 witness: the example resolved at C's index
C10_Witness ==
  /\ mapTokens = Example
  /\ mapIndex = 2
  /\ mapResult = <<0, 1>>

\* a token sequence is well nested: no closing token without an opening
\* one before it, and every opening token closed
WellNested(tokens) ==
  /\ \A k \in 0..(Len(tokens) - 1) : NestingSum(tokens, 0, k) >= 0
  /\ NestingSum(tokens, 0, Len(tokens) - 1) = 0

\* the index of the closing token that matches the opening token at j
MatchOf(tokens, j) ==
  CHOOSE k \in j..(Len(tokens) - 1) :
    /\ NestingSum(tokens, j, k) = 0
    /\ \A m \in j..(k - 1) : NestingSum(tokens, j, m) > 0

\* the token at j structurally encloses position i: it is the token at i,
\* or an opening token before i whose closing token is at or after i
Encloses(tokens, j, i) ==
  \/ j = i
  \/ /\ j < i
     /\ tokens[j + 1].nesting = 1
     /\ MatchOf(tokens, j) >= i

\* C11 as stated: on a well-nested token sequence, whenever getMap returns
\* a range it is the range of a token that structurally encloses position
\* i (the token at i, or an opening token at or before i whose closing
\* token is at or after i), never that of a sibling subtree closed before
\* i or of a self-contained preceding sibling.
C11_Original ==
  (/\ mapIndex >= 0
   /\ mapIndex < Len(mapTokens)
   /\ WellNested(mapTokens)
   /\ mapResult # NoMap) =>
    \E j \in 0..mapIndex :
      /\ mapTokens[j + 1].map = mapResult
      /\ Encloses(mapTokens, j, mapIndex)

(* --------------------- claims: errors, state, order -------------------- *)

\* the kinds of log entries that are invocations of a function
Invocations == {"handler", "rule", "renderToken", "hook"}

\* the invocations a log shows, in order
Invoked(log) == SelectSeq(log, LAMBDA c : c.kind \in Invocations)

\* the invocations of the throwing function a log shows
Throws(log) == SelectSeq(Invoked(log), LAMBDA c : c.fn = Thrower)

\* C12: if a hook, handler or rule throws during render or renderInline,
\* the call raises that error to its caller and returns no string, and
\* nothing is invoked after the throwing function: its invocation is the
\* last entry of the call's log, so no later handler, rule, hook or token
\* runs, the AfterRender and AfterInlineRender hooks included.  A call in
\* which nothing throws raises no error and returns a string.
C12_Propagation ==
  last.op \in {"render", "renderInline"} =>
    IF Throws(result.log) # <<>>
    THEN /\ error = UserError
         /\ ~result.returned
         /\ Len(Throws(result.log)) = 1
         /\ result.log[Len(result.log)].kind \in Invocations
         /\ result.log[Len(result.log)].fn = Thrower
    ELSE error = "none" /\ result.returned

\* C12 witness: a render of two tokens in which the second of three
\* handlers of the first token throws, with an AfterRender hook registered
C12_Witness ==
  /\ last.op = "render"
  /\ Len(last.tokens) = 2
  /\ error = UserError
  /\ GetOrEmpty(hooks, AfterRender) # <<>>
  /\ Len(Invoked(result.log)) >= 3
  /\ result.log[Len(result.log)].kind = "handler"
  /\ result.log[Len(result.log)].i = 0
  /\ Len(GetOrEmpty(handlers, last.tokens[1].type)) = 3

\* a step of the walk: a token handed to processToken ("processToken"),
\* its rule or default primitive having run ("completed"), or a children
\* sequence handed to renderInline ("renderInline", i = -1)
Visit(kind, tokens, i) == [kind |-> kind, tokens |-> tokens, i |-> i]

\* the steps of the walk that a log shows, in order
Visits(log) ==
  LET sel == SelectSeq(log, LAMBDA c :
               c.kind \in {"processToken", "renderInline", "rule",
                           "renderToken"})
  IN [k \in 1..Len(sel) |->
        IF sel[k].kind = "renderInline"
        THEN Visit("renderInline", sel[k].tokens, -1)
        ELSE Visit(IF sel[k].kind = "processToken" THEN "processToken"
                   ELSE "completed", sel[k].tokens, sel[k].i)]

\* the token at index i of tokens processed once, to its end
TokenVisits(tokens, i) ==
  <<Visit("processToken", tokens, i), Visit("completed", tokens, i)>>

\* every child processed once, in child order
ChildVisits(children) ==
  ConcatAll([k \in 1..Len(children) |-> TokenVisits(children, k - 1)])

\* every top-level token dispatched once, in index order: an inline
\* container to the inline pass over its children, any other token to
\* processToken
ExpectedVisits(tokens) ==
  ConcatAll([k \in 1..Len(tokens) |->
    IF Delegated(tokens[k], FALSE)
    THEN <<Visit("renderInline", tokens[k].children.toks, -1)>>
           \o ChildVisits(tokens[k].children.toks)
    ELSE TokenVisits(tokens, k - 1)])

\* C13: a render call visits every token exactly once and in input order.
\* The walk the log shows is: for each top-level token in index order one
\* dispatch (renderInline for an inline container, processToken
\* otherwise), for each child of a container one processToken in child
\* order, each token completed (its rule or default primitive run) before
\* the next is dispatched, and nothing after the last token.  A call that
\* raises an error has made a prefix of that walk.
C13_VisitOrder ==
  last.op = "render" =>
    /\ IsPrefix(Visits(result.log), ExpectedVisits(last.tokens))
    /\ error = "none" => Visits(result.log) = ExpectedVisits(last.tokens)

\* C13 witness: a render that returns, of an inline container with two
\* children or more followed by another token
C13_Witness ==
  /\ last.op = "render"
  /\ error = "none"
  /\ Len(last.tokens) = 2
  /\ Delegated(last.tokens[1], FALSE)
  /\ Len(last.tokens[1].children.toks) >= 2
  /\ ~Delegated(last.tokens[2], FALSE)
  /\ Len(Visits(result.log)) >= 7

\* the functions that write to the Renderer State when they are invoked
Writers == {Mutator, Registrar}

\* the number of writes the first n invocations of a log have made
WritesIn(log, n) ==
  Len(SelectSeq(SubSeq(Invoked(log), 1, n), LAMBDA c : c.fn \in Writers))

\* C14: the state initializer is invoked exactly once, during
\* construction: in every state it has been invoked once and the Renderer
\* State is the value that invocation made.  No registration call changes
\* the state.  A render or renderInline call begins with the state left by
\* construction and the earlier calls: every function it invokes finds the
\* state as the call found it plus the writes made before in the same
\* call, and the call leaves the state with all its writes.
C14_StateOnce ==
  /\ inits = 1
  /\ state.gen = 1
  /\ last.op \in {"setRules", "setHandlers", "handle", "setHooks", "hook"} =>
       state = prev.state
  /\ last.op \in {"render", "renderInline", "processToken"} =>
       LET inv == Invoked(result.log)
       IN /\ \A k \in 1..Len(inv) :
               inv[k].seen =
                 [gen |-> 1,
                  count |-> prev.state.count + WritesIn(result.log, k - 1)]
          /\ state = [gen |-> 1,
                      count |-> prev.state.count
                                  + WritesIn(result.log, Len(inv))]

\* C14 witness: a render on a renderer whose state an earlier render has
\* written to, in which the first function invoked finds those writes and
\* writes again
C14_Witness ==
  /\ last.op = "render"
  /\ prev.state.count >= 1
  /\ Invoked(result.log) # <<>>
  /\ Invoked(result.log)[1].seen = prev.state
  /\ Invoked(result.log)[1].fn = Mutator
  /\ state.count > prev.state.count

\* every function registered in t
Registered(t) ==
  {t.rules[k] : k \in DOMAIN t.rules}
    \cup UNION {{t.handlers[k][j] : j \in 1..Len(t.handlers[k])} :
                  k \in DOMAIN t.handlers}
    \cup UNION {{t.hooks[k][j] : j \in 1..Len(t.hooks[k])} :
                  k \in DOMAIN t.hooks}

\* the registered functions neither read nor write anything but their
\* arguments: none writes to the Renderer State or registers
Pure(t) == Registered(t) \cap Writers = {}

\* C15: render is idempotent when the registered functions are
\* deterministic and touch nothing outside their arguments.  The call
\* leaves the renderer (tables and state) exactly as it found it, and
\* render called again on the renderer it left, with the same tokens,
\* gives the same outcome: the same string, or the same error.
C15_Idempotent ==
  (last.op = "render" /\ Pure(prev)) =>
    /\ Current = prev
    /\ LET again == render(Current, last.tokens)
       IN /\ again.ret = result.ret
          /\ again.error = error
          /\ again.log = result.log
          /\ again.t = Current

\* C15 witness: a render that returned the results of two BeforeRender
\* hooks, an inline pass with hooks and two AfterRender hooks, all of them
\* functions without effects
C15_Witness ==
  /\ last.op = "render"
  /\ Pure(prev)
  /\ result.returned
  /\ Len(GetOrEmpty(hooks, BeforeRender)) >= 2
  /\ Len(GetOrEmpty(hooks, AfterRender)) >= 2
  /\ Len(InlineHookCalls(result.log)) >= 4
  /\ Len(last.tokens) = 2
  /\ Len(result.ret) >= 8

\* the string an invocation recorded in the log returns
PieceOf(c) ==
  IF c.kind = "hook" THEN HookPiece(c.fn, c.parameters)
  ELSE Piece(c.fn, c.tokens, c.i)

\* the position of the renderInline entry of the pass that the entry at
\* position p of the log belongs to (0: none)
PassStart(log, p) ==
  LET S == {q \in 1..(p - 1) : log[q].kind = "renderInline"}
  IN IF S = {} THEN 0 ELSE CHOOSE q \in S : \A r \in S : r <= q

\* the results, in order, of the functions invoked between positions a and
\* b of the log (both excluded)
ResultsBetween(log, a, b) ==
  LET inv == Invoked(SubSeq(log, a + 1, b - 1))
  IN ConcatAll([k \in 1..Len(inv) |-> PieceOf(inv[k])])

InlineCycles == {BeforeInlineRender, AfterInlineRender}

\* C16: every hook of the inline lifecycle receives the accumulator of
\* its own inline pass, which begins empty with each renderInline call:
\* the content it finds, concatenated, is exactly the results of what was
\* invoked before it in the same pass (for the k-th BeforeInlineRender
\* hook the k-1 hooks before it; for the k-th AfterInlineRender hook all
\* BeforeInlineRender hooks, then the children's outputs, then the k-1
\* AfterInlineRender hooks before it), nothing of an earlier pass.
\* BeforeRender and AfterRender hooks receive no accumulator.
C16_Accumulator ==
  last.op \in {"render", "renderInline"} =>
    \A p \in 1..Len(result.log) :
      LET c == result.log[p]
      IN c.kind = "hook" =>
           IF c.cycle \in InlineCycles
           THEN /\ c.parameters.rendered.isArray
                /\ PassStart(result.log, p) > 0
                /\ Join(c.parameters.rendered.items) =
                     ResultsBetween(result.log, PassStart(result.log, p), p)
           ELSE c.parameters.rendered = NoArray

\* C16 witness: a render with two inline passes, the first of which has
\* pushed hook results, in which the second AfterInlineRender hook of the
\* second pass finds two hook results, the children's outputs and the
\* first AfterInlineRender hook's result
C16_Witness ==
  /\ last.op = "render"
  /\ Len(SelectSeq(result.log, LAMBDA c : c.kind = "renderInline")) = 2
  /\ Len(GetOrEmpty(hooks, BeforeInlineRender)) >= 2
  /\ Len(last.tokens[2].children.toks) >= 2
  /\ \E p \in 1..Len(result.log) :
       /\ result.log[p].kind = "hook"
       /\ result.log[p].cycle = AfterInlineRender
       /\ Len(Join(result.log[p].parameters.rendered.items)) >= 5
       /\ Len(ResultsBetween(result.log, 1, PassStart(result.log, p))) >= 4

\* a step of a call as C17 orders them: a lifecycle point's run beginning
\* ("runHooks"), a hook invoked ("hook"), a children sequence entering the
\* inline pass ("renderInline"), a token entering processToken
\* ("processToken") and its rule or default primitive having run
\* ("completed")
Step(kind, cycle, fn, tokens, i) ==
  [kind |-> kind, cycle |-> cycle, fn |-> fn, tokens |-> tokens, i |-> i]

\* the steps a log shows, in order (the handlers' invocations left out)
Steps(log) ==
  LET sel == SelectSeq(log, LAMBDA c : c.kind # "handler")
      proj(c) ==
        CASE c.kind = "runHooks" -> Step("runHooks", c.cycle, -1, <<>>, -1)
          [] c.kind = "hook" ->
               Step("hook", c.cycle, c.fn, c.parameters.tokens, -1)
          [] c.kind = "renderInline" ->
               Step("renderInline", -1, -1, c.tokens, -1)
          [] c.kind = "processToken" ->
               Step("processToken", -1, -1, c.tokens, c.i)
          [] OTHER -> Step("completed", -1, -1, c.tokens, c.i)
  IN [k \in 1..Len(sel) |-> proj(sel[k])]

\* one run of a lifecycle point: every hook registered for it, once, in
\* registration order, given the sequence tokens
HookSteps(t, cycle, tokens) ==
  LET hs == GetOrEmpty(t.hooks, cycle)
  IN <<Step("runHooks", cycle, -1, <<>>, -1)>>
       \o [k \in 1..Len(hs) |-> Step("hook", cycle, hs[k], tokens, -1)]

\* a token processed, without any hook
TokenSteps(tokens, i) ==
  <<Step("processToken", -1, -1, tokens, i),
    Step("completed", -1, -1, tokens, i)>>

\* one inline pass: the BeforeInlineRender hooks, then every child through
\* processToken (a child that is itself an inline container too), then the
\* AfterInlineRender hooks
InlineSteps(t, children) ==
  <<Step("renderInline", -1, -1, children, -1)>>
    \o HookSteps(t, BeforeInlineRender, children)
    \o ConcatAll([k \in 1..Len(children) |-> TokenSteps(children, k - 1)])
    \o HookSteps(t, AfterInlineRender, children)

\* one render: the BeforeRender hooks, then the tokens in order, each
\* delegated container with its inline pass, then the AfterRender hooks
RenderSteps(t, tokens) ==
  HookSteps(t, BeforeRender, tokens)
    \o ConcatAll([k \in 1..Len(tokens) |->
         IF Delegated(tokens[k], FALSE)
         THEN InlineSteps(t, tokens[k].children.toks)
         ELSE TokenSteps(tokens, k - 1)])
    \o HookSteps(t, AfterRender, tokens)

\* C17: in a render call that returns, on a renderer whose functions do
\* not register while they run, every BeforeRender hook is invoked exactly
\* once before any token is processed, every AfterRender hook exactly once
\* after the last token, and for each delegated inline container every
\* BeforeInlineRender hook exactly once before its first child and every
\* AfterInlineRender hook exactly once after its last child.  The descent
\* has depth 1: the children of a container go through processToken, an
\* inline child with children too, and no inline hook runs for such a
\* child.  A call that raises an error has made a prefix of these steps.
C17_Lifecycle ==
  (last.op = "render" /\ Registrar \notin Registered(prev)) =>
    /\ IsPrefix(Steps(result.log), RenderSteps(prev, last.tokens))
    /\ error = "none" => Steps(result.log) = RenderSteps(prev, last.tokens)

\* C17 witness: a render that returns, with hooks at all four lifecycle
\* points, of a container whose second child is an inline token with
\* children, followed by another container
C17_Witness ==
  /\ last.op = "render"
  /\ error = "none"
  /\ \A c \in 0..3 : GetOrEmpty(prev.hooks, c) # <<>>
  /\ Len(last.tokens) = 2
  /\ Delegated(last.tokens[1], FALSE)
  /\ Len(last.tokens[1].children.toks) >= 2
  /\ Delegated(last.tokens[1].children.toks[2], FALSE)
  /\ Delegated(last.tokens[2], FALSE)
  /\ Len(InlineHookCalls(result.log)) >= 4

\* the indices (from 1) of the top-level tokens that are delegated to the
\* inline pass, in order
DelegatedIdx(tokens) ==
  SelectSeq([k \in 1..Len(tokens) |-> k],
            LAMBDA k : Delegated(tokens[k], FALSE))

\* the number of renderInline entries among the first p entries of a log
PassesUpTo(log, p) ==
  Len(SelectSeq(SubSeq(log, 1, p), LAMBDA c : c.kind = "renderInline"))

\* C18: the range is resolved once per top-level token, on the top-level
\* sequence.  In a render every inline pass, and every BeforeInlineRender
\* and AfterInlineRender hook invoked in it, receives as map
\* getMap(tokens, i) for the top-level index i of its container (null
\* when there is none), the same for all hooks of the pass, and the
\* container's children as tokens.  BeforeRender and AfterRender hooks
\* receive the top-level sequence and no map.
C18_MapPerToken ==
  last.op = "render" =>
    \A p \in 1..Len(result.log) :
      LET c == result.log[p]
          n == PassesUpTo(result.log, p)
          idx == DelegatedIdx(last.tokens)
      IN /\ c.kind = "renderInline" =>
              /\ n <= Len(idx)
              /\ c.map = getMap(last.tokens, idx[n] - 1)
              /\ c.tokens = last.tokens[idx[n]].children.toks
         /\ c.kind = "hook" =>
              IF c.cycle \in InlineCycles
              THEN /\ n >= 1 /\ n <= Len(idx)
                   /\ c.parameters.map =
                        MapParam(getMap(last.tokens, idx[n] - 1))
                   /\ c.parameters.tokens = last.tokens[idx[n]].children.toks
              ELSE /\ c.parameters.map = NoMapParam
                   /\ c.parameters.tokens = last.tokens

\* C18 witness: a render of a token with a range followed by a container
\* without one, whose inline hooks receive the range of the token before
\* it, found by the backward scan on the top-level sequence
C18_Witness ==
  /\ last.op = "render"
  /\ Len(last.tokens) = 2
  /\ last.tokens[1].map = <<0, 1>>
  /\ last.tokens[2].map = NoMap
  /\ Delegated(last.tokens[2], FALSE)
  /\ Len(InlineHookCalls(result.log)) >= 2
  /\ \A k \in 1..Len(InlineHookCalls(result.log)) :
       InlineHookCalls(result.log)[k].parameters.map = MapParam(<<0, 1>>)

\* the invocations that follow the entry at position p of a log, up to the
\* next entry that is no invocation, and whether the log ends with them
SegmentAfter(log, p) ==
  LET ends == {q \in (p + 1)..Len(log) : log[q].kind \notin Invocations}
      e == IF ends = {} THEN Len(log) + 1
           ELSE CHOOSE q \in ends : \A r \in ends : q <= r
  IN [calls |-> SubSeq(log, p + 1, e - 1), open |-> ends = {}]

\* the functions invoked in a segment, in order
FnsOf(seg) == [k \in 1..Len(seg) |-> seg[k].fn]

\* how often, among the first n entries of a log, the Registrar ran as a
\* handler or rule of a token of the type, or as a hook of the cycle
RegistrarRuns(log, n, kinds, key) ==
  Len(SelectSeq(SubSeq(log, 1, n), LAMBDA c :
        /\ c.kind \in kinds
        /\ c.fn = Registrar
        /\ IF c.kind = "hook" THEN c.cycle = key
           ELSE c.tokens[c.i + 1].type = key))

\* n times the function the Registrar registers as a handler or hook
Ones(n) == [k \in 1..n |-> 1]

\* the handlers, rule and hooks in force after the Registrar has run n
\* times for the key on the tables t
HandlersAfter(t, type, n) == GetOrEmpty(t.handlers, type) \o Ones(n)
RuleAfter(t, type, n) ==
  IF n > 0 THEN 2
  ELSE IF Has(t.rules, type) THEN t.rules[type] ELSE RenderTokenFn
HooksAfter(t, cycle, n) == GetOrEmpty(t.hooks, cycle) \o Ones(n)

\* C19: a registration made by a function while it runs takes effect from
\* the next dispatch.  The handlers and the rule processToken uses for a
\* token are those in force when it began with the token (the
\* registrations of the functions that ran before it included), and the
\* functions then invoked for the token are exactly these, whatever the
\* token's own handlers register; the hooks run for a lifecycle point are
\* exactly those in force when its run began.  A call that raises an error
\* stops within such a list.
C19_NextDispatch ==
  last.op \in {"render", "renderInline"} =>
    \A p \in 1..Len(result.log) :
      LET c == result.log[p]
          seg == SegmentAfter(result.log, p)
          whole == error = "none" \/ ~seg.open
      IN /\ c.kind = "processToken" =>
              LET type == c.tokens[c.i + 1].type
                  n == RegistrarRuns(result.log, p - 1, {"handler", "rule"},
                                     type)
                  due == c.fns \o <<c.rule>>
              IN /\ c.fns = HandlersAfter(prev, type, n)
                 /\ c.rule = RuleAfter(prev, type, n)
                 /\ IsPrefix(FnsOf(seg.calls), due)
                 /\ whole => FnsOf(seg.calls) = due
         /\ c.kind = "runHooks" =>
              LET n == RegistrarRuns(result.log, p - 1, {"hook"}, c.cycle)
              IN /\ c.fns = HooksAfter(prev, c.cycle, n)
                 /\ IsPrefix(FnsOf(seg.calls), c.fns)
                 /\ whole => FnsOf(seg.calls) = c.fns

\* C19 witness: a render of two tokens of one type whose first handler
\* registers a handler and a rule for the type while it runs: the first
\* token is given the two handlers and the rule it began with, the second
\* the three handlers and the new rule
C19_Witness ==
  /\ last.op = "render"
  /\ error = "none"
  /\ Len(last.tokens) = 2
  /\ last.tokens[1].type = "text"
  /\ last.tokens[2].type = "text"
  /\ GetOrEmpty(prev.handlers, "text") = <<Registrar, 2>>
  /\ \E p, q \in 1..Len(result.log) :
       /\ p < q
       /\ result.log[p].kind = "processToken"
       /\ result.log[p].fns = <<Registrar, 2>>
       /\ result.log[p].rule = BuiltinTextRule
       /\ FnsOf(SegmentAfter(result.log, p).calls)
            = <<Registrar, 2, BuiltinTextRule>>
       /\ result.log[q].kind = "processToken"
       /\ result.log[q].fns = <<Registrar, 2, 1>>
       /\ result.log[q].rule = 2

====
